---- MODULE Spec2Model ----
(***************************************************************************)
(* A model of the Reader API MCP server (src/main.py): the lifespan of the *)
(* shared Reader client, the parameter validator and the list_documents    *)
(* resource handler.                                                       *)
(*                                                                         *)
(* A Python str is a sequence of one-character strings, a dict is a        *)
(* function whose DOMAIN is its key set, and an Optional value is a record *)
(* with a `some` flag.                                                     *)
(***************************************************************************)
EXTENDS Naturals, Sequences, FiniteSets, TLC

\* Longest `after` string the validator is applied to.
MaxLen == 3
\* Number of list_documents invocations the host may have in flight at once.
MaxCalls == 2

(***************************************************************************)
(* Strings                                                                 *)
(***************************************************************************)

\* Characters the `after` inputs are built from.
AfterAlphabet == {"T", "Z", "+", "t", "z", "-"}

\* Python's `c in s` for a one-character c.
Contains(s, c) == \E i \in 1..Len(s) : s[i] = c

\* Python's s.endswith(c) for a one-character c.
EndsWith(s, c) == Len(s) > 0 /\ s[Len(s)] = c

\* All strings over alphabet A of length at most n.
StringsUpTo(A, n) == UNION {[1..k -> A] : k \in 0..n}

(***************************************************************************)
(* validate_list_params                                                    *)
(***************************************************************************)

valid_locations ==
    { <<"n","e","w">>,
      <<"l","a","t","e","r">>,
      <<"s","h","o","r","t","l","i","s","t">>,
      <<"a","r","c","h","i","v","e">>,
      <<"f","e","e","d">> }

\* The empty dict.
EmptyDict == [k \in {} |-> <<>>]

\* d[k] = v on a dict d.
DictSet(d, k, v) == [x \in (DOMAIN d) \cup {k} |-> IF x = k THEN v ELSE d[x]]

\* Faulty variant: the location is matched after lower-casing its first character.
LocationAcceptedFolded(location) ==
    \/ location \in valid_locations
    \/ /\ Len(location) > 0
       /\ \E v \in valid_locations :
             /\ Len(v) = Len(location)
             /\ \A i \in 2..Len(v) : v[i] = location[i]
             /\ location[1] \in {"N", "L", "S", "A", "F"}

\* `location in valid_locations`
LocationAccepted(location) == location \in valid_locations

\* Faulty variant: the timestamp test without the 'T' requirement.
AfterAcceptedNoT(after) == EndsWith(after, "Z") \/ Contains(after, "+")

\* `'T' in after and (after.endswith('Z') or '+' in after)`
AfterAccepted(after) ==
    Contains(after, "T") /\ (EndsWith(after, "Z") \/ Contains(after, "+"))

\* A warning record of the module logger.
Warning(what, value) == [level |-> "warning", what |-> what, value |-> value]

\* Faulty variant: an invalid location is raised as ValueError instead of being dropped.
validate_list_params_strict(location, after) ==
    IF LocationAccepted(location)
    THEN [kind |-> "return",
          params |-> IF AfterAccepted(after)
                     THEN DictSet(DictSet(EmptyDict, "location", location),
                                  "updatedAfter", after)
                     ELSE DictSet(EmptyDict, "location", location),
          log |-> IF AfterAccepted(after) THEN <<>>
                  ELSE <<Warning("Invalid ISO 8601 datetime", after)>>]
    ELSE [kind |-> "raise", params |-> EmptyDict,
          log |-> <<[level |-> "error", what |-> "Invalid location",
                     value |-> location]>>]

\* validate_list_params(location, after): what the call does, as
\* [kind, params, log]; kind is "return" or "raise".
validate_list_params(location, after) ==
    LET p0 == EmptyDict
        p1 == IF LocationAccepted(location)
              THEN DictSet(p0, "location", location) ELSE p0
        l1 == IF LocationAccepted(location) THEN <<>>
              ELSE <<Warning("Invalid location", location)>>
        p2 == IF AfterAccepted(after)
              THEN DictSet(p1, "updatedAfter", after) ELSE p1
        l2 == IF AfterAccepted(after) THEN l1
              ELSE Append(l1, Warning("Invalid ISO 8601 datetime", after))
    IN  [kind |-> "return", params |-> p2, log |-> l2]

(***************************************************************************)
(* Inputs of the validator                                                 *)
(***************************************************************************)

\* `after` strings: every string over AfterAlphabet up to MaxLen.
AfterInputs == StringsUpTo(AfterAlphabet, MaxLen)

Capitalized(s) ==
    [i \in 1..Len(s) |->
        IF i # 1 THEN s[i]
        ELSE CASE s[1] = "n" -> "N" [] s[1] = "l" -> "L" [] s[1] = "s" -> "S"
               [] s[1] = "a" -> "A" [] s[1] = "f" -> "F" [] OTHER -> s[1]]

\* `location` strings: the valid ones, and near misses of them (a capital
\* first letter, a prefix, one more character), "trash" and the empty string.
LocationInputs ==
    valid_locations
    \cup {Capitalized(v) : v \in valid_locations}
    \cup {SubSeq(v, 1, Len(v) - k) : v \in valid_locations, k \in 1..MaxLen}
    \cup {v \o <<c>> : v \in valid_locations, c \in {" ", "s", "/"}}
    \cup {<<" ">> \o v : v \in valid_locations}
    \cup {<<"t","r","a","s","h">>, <<>>}

(***************************************************************************)
(* Session context: reader_lifespan                                        *)
(***************************************************************************)

READER_API_BASE_URL == "https://readwise.io/api/v3"

\* The client's `timeout=30.0`, in seconds.
ClientTimeout == 30

\* Optional values.
None == [some |-> FALSE, v |-> ""]
Some(x) == [some |-> TRUE, v |-> x]

\* Values READER_ACCESS_TOKEN may have in the process environment and in the
\* .env file: not there, the empty string, a token.
EnvironValues == {None, Some(""), Some("tokA")}
DotenvValues == {None, Some(""), Some("tokB")}

\* load_dotenv(): a variable of the .env file is put into os.environ unless
\* os.environ already has it (override is off); returns the new os.environ
\* entry of READER_ACCESS_TOKEN.
load_dotenv(env, file) == IF env.some THEN env ELSE file

\* Faulty variant: only an absent variable is refused, the empty string passes.
TokenMissingNoneOnly(access_token) == ~access_token.some

\* `not access_token` on the result of os.environ.get(...)
TokenMissing(access_token) == ~access_token.some \/ access_token.v = ""

\* headers={"Authorization": f"Token {access_token}"}
AuthHeaders(access_token) ==
    [Authorization |-> [scheme |-> "Token", credential |-> access_token]]

\* No client constructed.
NoClient ==
    [state |-> "none", base_url |-> "", headers |-> AuthHeaders(""),
     params |-> EmptyDict, timeout |-> 0, created |-> 0]

\* httpx.AsyncClient(base_url=..., headers=..., timeout=30.0), entered; no
\* default query parameters are given, so the client's are empty.
NewClient(old, access_token) ==
    [state |-> "open", base_url |-> READER_API_BASE_URL,
     headers |-> AuthHeaders(access_token), params |-> EmptyDict,
     timeout |-> ClientTimeout, created |-> old.created + 1]

\* No ReaderContext yielded.
NoContext == [some |-> FALSE, access_token |-> ""]

\* ReaderContext(access_token=access_token, client=client); the client field
\* refers to the one shared client, held in the variable `client`.
ReaderContext(access_token) == [some |-> TRUE, access_token |-> access_token]

NoError == [raised |-> FALSE, type |-> "", msg |-> ""]
Error(type, msg) == [raised |-> TRUE, type |-> type, msg |-> msg]

(***************************************************************************)
(* The remote service and the transport                                    *)
(***************************************************************************)

\* Response bodies on the wire.
BodyList == "{\"count\": 2, \"results\": [\"d1\", \"d2\"], \"nextPageCursor\": null}"
BodyPage == "{\"count\": 1, \"results\": [\"d3\"], \"nextPageCursor\": \"c1\", \"extra\": 1}"
BodyDenied == "{\"detail\": \"Invalid token.\"}"
BodyHtml == "<html>Bad Gateway</html>"

NoValue == [none |-> TRUE]

\* What the network gives back for one request: a response, or a failure of
\* the transport (connection, DNS, the 30 second timeout).
Response(status, body) ==
    [kind |-> "response", status |-> status, body |-> body, error |-> ""]
TransportFailure(error) ==
    [kind |-> "failure", status |-> 0, body |-> "", error |-> error]
NoResult == [kind |-> "none", status |-> 0, body |-> "", error |-> ""]

NetworkResults ==
    { Response(200, BodyList), Response(200, BodyPage), Response(200, BodyHtml),
      Response(401, BodyDenied),
      TransportFailure("ConnectError"), TransportFailure("ReadTimeout") }

\* response.raise_for_status(): HTTPStatusError on a 4xx or 5xx status.
raise_for_status(r) ==
    IF r.status >= 400 /\ r.status <= 599
    THEN Error("HTTPStatusError", r.body) ELSE NoError

\* response.json(): the parsed body, or JSONDecodeError.
json(r) ==
    CASE r.body = BodyList ->
           [error |-> NoError,
            data |-> [count |-> 2, results |-> <<"d1", "d2">>,
                      nextPageCursor |-> None]]
      [] r.body = BodyPage ->
           [error |-> NoError,
            data |-> [count |-> 1, results |-> <<"d3">>,
                      nextPageCursor |-> Some("c1"), extra |-> 1]]
      [] r.body = BodyDenied ->
           [error |-> NoError, data |-> [detail |-> "Invalid token."]]
      [] OTHER ->
           [error |-> Error("JSONDecodeError", r.body), data |-> NoValue]

(***************************************************************************)
(* State                                                                   *)
(***************************************************************************)

VARIABLES
    vphase,     \* validator harness: "input" before the call, "done" after
    vloc,       \* validator harness: the `location` argument
    vafter,     \* validator harness: the `after` argument
    vout,       \* validator harness: what validate_list_params did
    environ,    \* os.environ's READER_ACCESS_TOKEN at process start
    dotenv,     \* the .env file's READER_ACCESS_TOKEN
    lifespan,   \* reader_lifespan: "init", "serving", "failed", "exited"
    lerror,     \* the exception reader_lifespan raised at startup
    llog,       \* records reader_lifespan logged
    client,     \* the shared httpx.AsyncClient
    ctx,        \* the ReaderContext yielded to the host
    exitkind,   \* how the lifespan scope was left: "none", "normal", "error"
    pc,         \* per invocation: "idle", "called", "awaiting", "responded", "done"
    arg,        \* per invocation: its location and after arguments
    sent,       \* per invocation: the requests it issued, in order
    resp,       \* per invocation: what the network gave back for its request
    outcome,    \* per invocation: how it ended (returned value or raised error)
    hlog        \* per invocation: records the handler logged

vvars == <<vphase, vloc, vafter, vout>>
lvars == <<environ, dotenv, lifespan, lerror, llog, client, ctx, exitkind>>
hvars == <<pc, arg, sent, resp, outcome, hlog>>
vars == <<vvars, lvars, hvars>>

Calls == 1..MaxCalls

\* Arguments the host invokes list_documents with.
LocationArgs == {<<"l","a","t","e","r">>, <<"t","r","a","s","h">>}
AfterArgs == {<<"2","0","2","4","T","0","0","Z">>, <<"n","o","t","-","a","-","d","a","t","e">>}

NoArg == [location |-> <<>>, after |-> <<>>]
NoOutcome == [kind |-> "none", value |-> NoValue, error |-> NoError]
NoValidation == [kind |-> "none", params |-> EmptyDict, log |-> <<>>]

LifespanIdle ==
    /\ lifespan = "init" /\ lerror = NoError /\ llog = <<>>
    /\ client = NoClient /\ ctx = NoContext /\ exitkind = "none"

HandlersIdle ==
    /\ pc = [i \in Calls |-> "idle"]
    /\ arg = [i \in Calls |-> NoArg]
    /\ sent = [i \in Calls |-> <<>>]
    /\ resp = [i \in Calls |-> NoResult]
    /\ outcome = [i \in Calls |-> NoOutcome]
    /\ hlog = [i \in Calls |-> <<>>]

(***************************************************************************)
(* The validator on its own                                                *)
(***************************************************************************)

InitValidate ==
    /\ vphase = "input"
    /\ vloc \in LocationInputs
    /\ vafter \in AfterInputs
    /\ vout = NoValidation
    /\ environ = None /\ dotenv = None
    /\ LifespanIdle
    /\ HandlersIdle

CallValidate ==
    /\ vphase = "input"
    /\ vout' = validate_list_params(vloc, vafter)
    /\ vphase' = "done"
    /\ UNCHANGED <<vloc, vafter, lvars, hvars>>

NextValidate == CallValidate

SpecValidate == InitValidate /\ [][NextValidate]_vars

(***************************************************************************)
(* reader_lifespan                                                         *)
(***************************************************************************)

Init ==
    /\ vphase = "input" /\ vloc = <<>> /\ vafter = <<>> /\ vout = NoValidation
    /\ environ \in EnvironValues
    /\ dotenv \in DotenvValues
    /\ LifespanIdle
    /\ HandlersIdle

\* The host enters reader_lifespan: load_dotenv, the token check, the client,
\* and the yield of the context.
LifespanEnter ==
    /\ lifespan = "init"
    /\ LET access_token == load_dotenv(environ, dotenv)
       IN  IF TokenMissing(access_token)
           THEN /\ llog' = Append(llog, [level |-> "error",
                      what |-> "READER_ACCESS_TOKEN environment variable is not set"])
                /\ lerror' = Error("ValueError",
                      "READER_ACCESS_TOKEN environment variable is not set")
                /\ lifespan' = "failed"
                /\ UNCHANGED <<client, ctx>>
           ELSE /\ client' = NewClient(client, access_token.v)
                /\ ctx' = ReaderContext(access_token.v)
                /\ lifespan' = "serving"
                /\ UNCHANGED <<llog, lerror>>
    /\ UNCHANGED <<environ, dotenv, exitkind, vvars, hvars>>

\* Faulty variant: the client is closed on the normal path only.
LifespanExitLeaky(kind) ==
    /\ lifespan = "serving"
    /\ \A i \in Calls : pc[i] \in {"idle", "done"}
    /\ lifespan' = "exited"
    /\ exitkind' = kind
    /\ client' = IF kind = "normal" THEN [client EXCEPT !.state = "closed"]
                 ELSE client
    /\ UNCHANGED <<environ, dotenv, lerror, llog, ctx, vvars, hvars>>

\* The host leaves the lifespan scope, normally or by an exception thrown in
\* at the yield; `async with` closes the client either way. The host has
\* joined its handlers before it leaves.
LifespanExit(kind) ==
    /\ lifespan = "serving"
    /\ \A i \in Calls : pc[i] \in {"idle", "done"}
    /\ lifespan' = "exited"
    /\ exitkind' = kind
    /\ client' = [client EXCEPT !.state = "closed"]
    /\ UNCHANGED <<environ, dotenv, lerror, llog, ctx, vvars, hvars>>

(***************************************************************************)
(* list_documents                                                          *)
(***************************************************************************)

\* get_reader_context(): the context the lifespan yielded.
get_reader_context == ctx

\* The merge of two dicts, b's entries winning.
DictMerge(a, b) ==
    [k \in (DOMAIN a) \cup (DOMAIN b) |-> IF k \in DOMAIN b THEN b[k] ELSE a[k]]

\* ctx.client.get("/list/", params=params): the request the client builds,
\* from its own base URL, headers, default parameters and timeout.
Request(c, params) ==
    [method |-> "GET", base_url |-> c.base_url, path |-> "/list/",
     params |-> DictMerge(c.params, params), headers |-> c.headers,
     timeout |-> c.timeout]

\* Faulty variant: a failure is answered with an empty document list.
OnExceptionDefault(e) ==
    [kind |-> "return", value |-> [count |-> 0, results |-> <<>>,
                                   nextPageCursor |-> None],
     error |-> NoError,
     log |-> <<[level |-> "error", what |-> "Error retrieving document list",
                text |-> e.msg]>>]

\* The except block: log at error level with str(e), re-raise e.
OnException(e) ==
    [kind |-> "raise", value |-> NoValue, error |-> e,
     log |-> <<[level |-> "error", what |-> "Error retrieving document list",
                text |-> e.msg]>>]

\* Faulty variant: only the result items of the parsed body are returned.
ReturnDataResultsOnly(data) ==
    [kind |-> "return",
     value |-> IF "results" \in DOMAIN data THEN [results |-> data.results]
               ELSE data,
     error |-> NoError, log |-> <<>>]

\* `return data`
ReturnData(data) ==
    [kind |-> "return", value |-> data, error |-> NoError, log |-> <<>>]

\* What the handler does with the network's result r when it resumes at the
\* await: the rest of the try block, or the except block.
Completion(r) ==
    IF r.kind = "failure" THEN OnException(Error(r.error, r.error))
    ELSE IF raise_for_status(r).raised THEN OnException(raise_for_status(r))
    ELSE IF json(r).error.raised THEN OnException(json(r).error)
    ELSE ReturnData(json(r).data)

\* The host calls list_documents(location, after); only a serving host does.
Invoke(i, location, after) ==
    /\ lifespan = "serving"
    /\ pc[i] = "idle"
    /\ pc' = [pc EXCEPT ![i] = "called"]
    /\ arg' = [arg EXCEPT ![i] = [location |-> location, after |-> after]]
    /\ UNCHANGED <<sent, resp, outcome, hlog, vvars, lvars>>

\* Faulty variant: the arguments are sent as they came, without the validation.
StartUnvalidated(i) ==
    /\ pc[i] = "called"
    /\ get_reader_context.some
    /\ sent' = [sent EXCEPT ![i] = Append(@, Request(client,
                  DictSet(DictSet(EmptyDict, "location", arg[i].location),
                          "updatedAfter", arg[i].after)))]
    /\ hlog' = [hlog EXCEPT ![i] = <<[level |-> "debug"]>>]
    /\ pc' = [pc EXCEPT ![i] = "awaiting"]
    /\ UNCHANGED <<outcome, arg, resp, vvars, lvars>>

\* Faulty variant: the query is stored on the shared client instead of the request.
StartOnSharedClient(i) ==
    /\ pc[i] = "called"
    /\ get_reader_context.some
    /\ LET v == validate_list_params(arg[i].location, arg[i].after)
       IN  /\ client' = [client EXCEPT !.params = v.params]
           /\ sent' = [sent EXCEPT ![i] = Append(@, Request(client', EmptyDict))]
           /\ hlog' = [hlog EXCEPT ![i] = <<[level |-> "debug"]>> \o v.log]
           /\ pc' = [pc EXCEPT ![i] = "awaiting"]
           /\ UNCHANGED <<outcome>>
    /\ UNCHANGED <<arg, resp, vvars, environ, dotenv, lifespan, lerror, llog,
                   ctx, exitkind>>

\* The handler runs from its entry to the await of client.get: the context,
\* the debug record, the validation and the request. The validation is
\* inside the try block: were it to raise, the except block would log and
\* re-raise and no request would be issued.
Start(i) ==
    /\ pc[i] = "called"
    /\ get_reader_context.some
    /\ LET v == validate_list_params(arg[i].location, arg[i].after)
       IN  IF v.kind = "raise"
           THEN LET c == OnException(Error("ValueError", "validation"))
                IN  /\ outcome' = [outcome EXCEPT ![i] =
                          [kind |-> c.kind, value |-> c.value, error |-> c.error]]
                    /\ hlog' = [hlog EXCEPT ![i] =
                          <<[level |-> "debug"]>> \o v.log \o c.log]
                    /\ pc' = [pc EXCEPT ![i] = "done"]
                    /\ UNCHANGED sent
           ELSE /\ sent' = [sent EXCEPT ![i] = Append(@, Request(client, v.params))]
                /\ hlog' = [hlog EXCEPT ![i] = <<[level |-> "debug"]>> \o v.log]
                /\ pc' = [pc EXCEPT ![i] = "awaiting"]
                /\ UNCHANGED outcome
    /\ UNCHANGED <<arg, resp, vvars, lvars>>

\* The network answers invocation i's request, or fails it.
Deliver(i, r) ==
    /\ pc[i] = "awaiting"
    /\ resp' = [resp EXCEPT ![i] = r]
    /\ pc' = [pc EXCEPT ![i] = "responded"]
    /\ UNCHANGED <<arg, sent, outcome, hlog, vvars, lvars>>

\* Faulty variant: a failed request is issued once more.
ResumeRetry(i) ==
    /\ pc[i] = "responded"
    /\ LET c == Completion(resp[i])
       IN  IF c.kind = "raise" /\ Len(sent[i]) < 2
           THEN /\ sent' = [sent EXCEPT ![i] = Append(@, sent[i][1])]
                /\ pc' = [pc EXCEPT ![i] = "awaiting"]
                /\ hlog' = [hlog EXCEPT ![i] = @ \o c.log]
                /\ UNCHANGED outcome
           ELSE /\ outcome' = [outcome EXCEPT ![i] =
                      [kind |-> c.kind, value |-> c.value, error |-> c.error]]
                /\ hlog' = [hlog EXCEPT ![i] = @ \o c.log]
                /\ pc' = [pc EXCEPT ![i] = "done"]
                /\ UNCHANGED sent
    /\ UNCHANGED <<arg, resp, vvars, lvars>>

\* The handler resumes at the await and runs to its end.
Resume(i) ==
    /\ pc[i] = "responded"
    /\ LET c == Completion(resp[i])
       IN  /\ outcome' = [outcome EXCEPT ![i] =
                 [kind |-> c.kind, value |-> c.value, error |-> c.error]]
           /\ hlog' = [hlog EXCEPT ![i] = @ \o c.log]
    /\ pc' = [pc EXCEPT ![i] = "done"]
    /\ UNCHANGED <<arg, sent, resp, vvars, lvars>>

\* The host has passed invocation i's result on and drops it.
Forget(i) ==
    /\ pc[i] = "done"
    /\ pc' = [pc EXCEPT ![i] = "idle"]
    /\ arg' = [arg EXCEPT ![i] = NoArg]
    /\ sent' = [sent EXCEPT ![i] = <<>>]
    /\ resp' = [resp EXCEPT ![i] = NoResult]
    /\ outcome' = [outcome EXCEPT ![i] = NoOutcome]
    /\ hlog' = [hlog EXCEPT ![i] = <<>>]
    /\ UNCHANGED <<vvars, lvars>>

Next ==
    \/ LifespanEnter
    \/ \E kind \in {"normal", "error"} : LifespanExit(kind)
    \/ \E i \in Calls, l \in LocationArgs, a \in AfterArgs : Invoke(i, l, a)
    \/ \E i \in Calls : Start(i)
    \/ \E i \in Calls, r \in NetworkResults : Deliver(i, r)
    \/ \E i \in Calls : Resume(i)
    \/ \E i \in Calls : Forget(i)

Spec == Init /\ [][Next]_vars

(***************************************************************************)
(* Properties of the validator (under SpecValidate)                        *)
(***************************************************************************)

\* The five location names of the Reader API.
ReaderLocations ==
    { <<"n","e","w">>, <<"l","a","t","e","r">>,
      <<"s","h","o","r","t","l","i","s","t">>,
      <<"a","r","c","h","i","v","e">>, <<"f","e","e","d">> }

HasKey(d, k) == k \in DOMAIN d

\* The `location` entry of a dict, as an optional value.
LocationEntry(d) ==
    IF HasKey(d, "location") THEN [some |-> TRUE, v |-> d["location"]]
    ELSE [some |-> FALSE, v |-> <<>>]

\* C1: the returned mapping has the key `location` exactly when the input
\* location is, letter for letter, one of new, later, shortlist, archive,
\* feed; the value is then the input itself; and the location entry is the
\* same whatever `after` is (every `after` gives the entry that the empty
\* `after` gives).
C1_LocationRule ==
    vphase = "done" =>
        /\ HasKey(vout.params, "location") <=> vloc \in ReaderLocations
        /\ HasKey(vout.params, "location") => vout.params["location"] = vloc
        /\ LocationEntry(vout.params)
              = LocationEntry(validate_list_params(vloc, <<>>).params)

C1_Witness ==
    /\ vphase = "done"
    /\ vloc = <<"l","a","t","e","r">>
    /\ vafter = <<"z">>
    /\ HasKey(vout.params, "location")
    /\ ~HasKey(vout.params, "updatedAfter")

\* The timestamp rule as the specification words it.
HasT(s) == \E i \in DOMAIN s : s[i] = "T"
HasPlus(s) == \E i \in DOMAIN s : s[i] = "+"
EndsInZ(s) == s # <<>> /\ s[Len(s)] = "Z"

\* C2: the returned mapping has the key `updatedAfter` exactly when `after`
\* contains T and either ends with Z or contains +; the value is then the
\* input unmodified; a string with + or a final Z but no T is omitted.
C2_AfterRule ==
    vphase = "done" =>
        /\ HasKey(vout.params, "updatedAfter")
              <=> (HasT(vafter) /\ (EndsInZ(vafter) \/ HasPlus(vafter)))
        /\ HasKey(vout.params, "updatedAfter")
              => vout.params["updatedAfter"] = vafter
        /\ (~HasT(vafter) /\ (EndsInZ(vafter) \/ HasPlus(vafter)))
              => ~HasKey(vout.params, "updatedAfter")

C2_Witness ==
    /\ vphase = "done"
    /\ vafter = <<"T", "+", "-">>
    /\ HasKey(vout.params, "updatedAfter")
    /\ vout.params["updatedAfter"] = <<"T", "+", "-">>

\* C3: the validator always returns, never raises; the mapping has at most
\* two entries with keys among location and updatedAfter; an invalid input
\* shows only as a warning record and a missing key.
C3_NeverRaises ==
    vphase = "done" =>
        /\ vout.kind = "return"
        /\ DOMAIN vout.params \subseteq {"location", "updatedAfter"}
        /\ Cardinality(DOMAIN vout.params) \in 0..2
        /\ \A k \in 1..Len(vout.log) : vout.log[k].level = "warning"
        /\ Len(vout.log) + Cardinality(DOMAIN vout.params) = 2

C3_Witness ==
    /\ vphase = "done"
    /\ vloc = <<"t","r","a","s","h">>
    /\ vafter = <<"-">>
    /\ vout.kind = "return"
    /\ vout.params = EmptyDict
    /\ Len(vout.log) = 2

(***************************************************************************)
(* Properties of the server (under Spec)                                   *)
(***************************************************************************)

Issued(i) == pc[i] \in {"awaiting", "responded", "done"}

\* C4: an invocation that has run to its await has issued a GET to /list/
\* whose query is validate_list_params of its own arguments: the request is
\* issued also when one or both parameters were dropped, and a value that is
\* not valid never is a query parameter.
C4_QueryIsValidated ==
    \A i \in Calls :
        Issued(i) =>
            /\ Len(sent[i]) >= 1
            /\ sent[i][1].method = "GET"
            /\ sent[i][1].path = "/list/"
            /\ sent[i][1].params
                  = validate_list_params(arg[i].location, arg[i].after).params
            /\ HasKey(sent[i][1].params, "location")
                  => sent[i][1].params["location"] \in ReaderLocations
            /\ HasKey(sent[i][1].params, "updatedAfter")
                  => HasT(sent[i][1].params["updatedAfter"])

C4_Witness ==
    \E i \in Calls :
        /\ pc[i] = "awaiting"
        /\ arg[i].location = <<"t","r","a","s","h">>
        /\ arg[i].after = <<"n","o","t","-","a","-","d","a","t","e">>
        /\ Len(sent[i]) = 1
        /\ sent[i][1].params = EmptyDict

\* C5: an invocation issues one request over its lifetime: none before it
\* reaches its await, one from then on, whatever the network gave back and
\* however the invocation ended.
C5_OneRequest ==
    \A i \in Calls :
        /\ ~Issued(i) => Len(sent[i]) = 0
        /\ Issued(i) => Len(sent[i]) = 1

C5_Witness ==
    \E i \in Calls :
        /\ pc[i] = "done"
        /\ resp[i] = TransportFailure("ReadTimeout")
        /\ outcome[i].kind = "raise"
        /\ Len(sent[i]) = 1

\* The upstream failures of the specification: an error status, a transport
\* failure, a body that is not JSON.
UpstreamFailed(r) ==
    \/ r.kind = "failure"
    \/ r.kind = "response" /\ r.status \in {401}
    \/ r.kind = "response" /\ r.body = BodyHtml

\* The error the client library raises for an upstream failure.
UnderlyingError(r) ==
    IF r.kind = "failure" THEN r.error
    ELSE IF r.status \in {401} THEN "HTTPStatusError"
    ELSE "JSONDecodeError"

\* C6: an invocation whose request met an error status, a transport failure
\* or a body that is not JSON ends by raising that very error, after an
\* error-level record; it returns no value.
C6_FailurePropagates ==
    \A i \in Calls :
        (pc[i] = "done" /\ UpstreamFailed(resp[i])) =>
            /\ outcome[i].kind = "raise"
            /\ outcome[i].error.raised
            /\ outcome[i].error.type = UnderlyingError(resp[i])
            /\ outcome[i].value = NoValue
            /\ Len(hlog[i]) >= 1
            /\ hlog[i][Len(hlog[i])].level = "error"

C6_Witness ==
    \E i \in Calls :
        /\ pc[i] = "done"
        /\ resp[i] = Response(401, BodyDenied)
        /\ outcome[i].kind = "raise"
        /\ outcome[i].error.type = "HTTPStatusError"

NothingServed ==
    /\ client.state = "none"
    /\ client.created = 0
    /\ ~ctx.some
    /\ \A i \in Calls : pc[i] = "idle" /\ sent[i] = <<>>

\* C8 as stated: with READER_ACCESS_TOKEN unset or empty in the process
\* environment at startup, initialization fails with the configuration error
\* and nothing is served (no client, no context, no request); and every
\* context that exists holds a non-empty credential.
C8_EnvironmentOnly ==
    /\ (lifespan # "init" /\ (~environ.some \/ environ.v = "")) =>
          /\ lifespan = "failed"
          /\ lerror.raised
          /\ NothingServed
    /\ ctx.some => ctx.access_token # ""

\* The variable as the token check sees it: the process environment's, or,
\* when the process environment has none, the .env file's.
EffectiveToken == IF environ.some THEN environ ELSE dotenv

\* C8, amended: with READER_ACCESS_TOKEN unset or empty once the .env file
\* has filled in what the process environment lacks, initialization fails
\* with ValueError and nothing is served; and every context that exists
\* holds a non-empty credential, which is the client's.
C8_TokenRequired ==
    /\ (lifespan # "init" /\ (~EffectiveToken.some \/ EffectiveToken.v = "")) =>
          /\ lifespan = "failed"
          /\ lerror.raised
          /\ lerror.type = "ValueError"
          /\ Len(llog) = 1 /\ llog[1].level = "error"
          /\ NothingServed
    /\ ctx.some =>
          /\ ctx.access_token # ""
          /\ ctx.access_token = EffectiveToken.v
          /\ client.headers.Authorization.credential = ctx.access_token
    /\ (\E i \in Calls : sent[i] # <<>>) => ctx.some

C8_Witness ==
    /\ lifespan = "failed"
    /\ environ = Some("")
    /\ dotenv = Some("tokB")
    /\ lerror.type = "ValueError"
    /\ NothingServed

\* C9: once created, the client is open exactly while the lifespan scope is
\* held and closed once the scope has been left, by a normal exit or by an
\* error; it is created at most once.
C9_ClientReleased ==
    /\ client.created <= 1
    /\ lifespan = "exited" => client.state = "closed"
    /\ client.state = "open" <=> lifespan = "serving"
    /\ client.created = 1 <=> lifespan \in {"serving", "exited"}

C9_Witness ==
    /\ lifespan = "exited"
    /\ exitkind = "error"
    /\ client.created = 1
    /\ client.state = "closed"

\* The session as initialization set it, for the token the run started with.
SessionAsInitialized ==
    /\ ctx = ReaderContext(EffectiveToken.v)
    /\ client.base_url = "https://readwise.io/api/v3"
    /\ client.headers = [Authorization |->
                           [scheme |-> "Token", credential |-> EffectiveToken.v]]
    /\ client.timeout = 30
    /\ client.params = EmptyDict

\* An invocation ended as the response to its own request decides.
OwnOutcome(i) ==
    LET c == Completion(resp[i])
    IN  /\ outcome[i].kind = c.kind
        /\ outcome[i].value = c.value
        /\ outcome[i].error = c.error
        /\ sent[i][1].params
              = validate_list_params(arg[i].location, arg[i].after).params

\* An invocation can take its next step whatever the others are doing.
NotBlocked(i) ==
    /\ pc[i] = "called" => ENABLED Start(i)
    /\ pc[i] = "awaiting" => \A r \in NetworkResults : ENABLED Deliver(i, r)
    /\ pc[i] = "responded" => ENABLED Resume(i)

\* C10: with several invocations in flight, in any interleaving: a finished
\* invocation has ended as its own response decides; an invocation is never
\* blocked by another; the session stays as initialization set it, and no
\* step of an invocation changes it.
C10_Independent ==
    /\ [](\A i \in Calls : (pc[i] = "done" => OwnOutcome(i)) /\ NotBlocked(i))
    /\ [](lifespan = "serving" => SessionAsInitialized)
    /\ [][pc' # pc => UNCHANGED <<ctx, client>>]_vars

C10_Witness ==
    \E i, j \in Calls :
        /\ i # j
        /\ pc[i] = "done" /\ outcome[i].kind = "raise"
        /\ pc[j] = "responded" /\ resp[j] = Response(200, BodyList)
        /\ arg[i] # arg[j]

====
